---- MODULE Spec2Model ----
(***************************************************************************)
(* A model of the baum crate: the Node tree (src/src/lib.rs), its binary   *)
(* codec, its Display and pretty-printer, the leaf conversion, and the     *)
(* text tokenizer and parser (src/src/parser.rs).                          *)
(*                                                                         *)
(* A Vec<u8> is a sequence of numbers in 0..255, a String a sequence of    *)
(* one-character strings, a Node a record with the variant in `kind`.      *)
(***************************************************************************)
EXTENDS Integers, Sequences, FiniteSets, TLC

\* ------------------------------------------------------------------ bounds

\* Nodes of the model have at most MaxSize nodes and leaf bytes in total.
MaxSize == 5
\* pretty_print is called with max_width in 0..MaxWidth.
MaxWidth == 14
\* try_into_array is asked for arrays of 0..MaxArrayLen bytes.
MaxArrayLen == 3
\* Byte buffers handed to deserialize directly hold at most MaxBufLen bytes.
MaxBufLen == 5
\* Hex literals handed to parse directly have at most MaxRun characters after 0x.
MaxRun == 4

\* The byte values leaves are built from: a small one that needs a leading
\* zero and equals the Inner tag, and one with two letter digits.
ByteVals == {1, 171}
\* The bytes appended to an encoding.
ExtraBytes == {0, 1, 66}

\* ------------------------------------------------------------ the Node type

Leaf(b) == [kind |-> "Leaf", bytes |-> b, nodes |-> <<>>]
Inner(ns) == [kind |-> "Inner", bytes |-> <<>>, nodes |-> ns]
\* The absence of a Node (the Err side of a Result<Node, _>).
NoNode == [kind |-> "None", bytes |-> <<>>, nodes |-> <<>>]

is_leaf(n) == n.kind = "Leaf"
is_inner(n) == n.kind = "Inner"

RECURSIVE NodesOfSize(_), ForestsOfSize(_)
\* The Nodes made of exactly k nodes and leaf bytes.
NodesOfSize(k) ==
    IF k = 0 THEN {}
    ELSE {Leaf(b) : b \in [1..(k - 1) -> ByteVals]}
         \cup {Inner(f) : f \in ForestsOfSize(k - 1)}
\* The child lists made of exactly k nodes and leaf bytes.
ForestsOfSize(k) ==
    IF k = 0 THEN {<<>>}
    ELSE UNION {{<<n>> \o f : n \in NodesOfSize(j), f \in ForestsOfSize(k - j)} :
                j \in 1..k}

Nodes == UNION {NodesOfSize(k) : k \in 1..MaxSize}

\* -------------------------------------------------------------- results

Ok(v) == [tag |-> "Ok", val |-> v, err |-> ""]
\* Result<Node, Error>::Err and the two failing ParseResult variants.
Err(e) == [tag |-> "Err", val |-> NoNode, err |-> e]
LexingError(s) == [tag |-> "LexingError", val |-> NoNode, err |-> s]
ParsingError(s) == [tag |-> "ParsingError", val |-> NoNode, err |-> s]
\* Result<T, TryIntoError>::Err.
ErrBytes(e) == [tag |-> "Err", val |-> <<>>, err |-> e]
NoResult == [tag |-> "None", val |-> NoNode, err |-> ""]

\* ------------------------------------------------------------ binary codec

\* "BAUM1".as_bytes()
Magic == <<66, 65, 85, 77, 49>>

RECURSIVE LeBytes(_, _)
\* The k low bytes of n, least significant first.
LeBytes(n, k) == IF k = 0 THEN <<>> ELSE <<n % 256>> \o LeBytes(n \div 256, k - 1)

\* (n as u64).to_le_bytes()
to_le_bytes(n) == LeBytes(n, 8)

RECURSIVE from_le_bytes_at(_, _)
\* u64::from_le_bytes(b), from byte i on
from_le_bytes_at(b, i) ==
    IF i > Len(b) THEN 0 ELSE b[i] + 256 * from_le_bytes_at(b, i + 1)
from_le_bytes(b) == from_le_bytes_at(b, 1)

RECURSIVE _serialize(_), SerializeNodes(_, _)
\* The bytes _serialize appends to w for node n.
_serialize(n) ==
    IF is_leaf(n)
    THEN <<0>> \o to_le_bytes(Len(n.bytes)) \o n.bytes
    ELSE <<1>> \o to_le_bytes(Len(n.nodes)) \o SerializeNodes(n.nodes, 1)
\* for node in nodes { node._serialize(w) }, from child i on
SerializeNodes(ns, i) ==
    IF i > Len(ns) THEN <<>> ELSE _serialize(ns[i]) \o SerializeNodes(ns, i + 1)

serialize(n) == Magic \o _serialize(n)

RECURSIVE _serialize_into(_, _), SerializeNodesInto(_, _, _)
\* The writer (a Vec<u8>, whose write appends the whole slice) after
\* _serialize_into has written node n to it.
_serialize_into(n, writer) ==
    IF is_leaf(n)
    THEN ((writer \o <<0>>) \o to_le_bytes(Len(n.bytes))) \o n.bytes
    ELSE SerializeNodesInto(n.nodes, 1,
                            (writer \o <<1>>) \o to_le_bytes(Len(n.nodes)))
SerializeNodesInto(ns, i, writer) ==
    IF i > Len(ns) THEN writer
    ELSE SerializeNodesInto(ns, i + 1, _serialize_into(ns[i], writer))

serialize_into(n, writer) == _serialize_into(n, writer \o Magic)

\* A reader is the buffer and the number of bytes consumed; a read result
\* carries the position after it.
ReadOk(v, p) == [tag |-> "Ok", val |-> v, err |-> "", pos |-> p]
ReadErr(e, p) == [tag |-> "Err", val |-> NoNode, err |-> e, pos |-> p]

\* read_exact of k bytes at position p: all k bytes, or UnexpectedEof.
CanRead(buf, p, k) == p + k <= Len(buf)
Slice(buf, p, k) == [i \in 1..k |-> buf[p + i]]

\* The type byte Node::_deserialize_from takes for a leaf.
LeafTag == 0
InnerTag == 1

RECURSIVE _deserialize_from(_, _), DeserializeNodes(_, _, _, _)
_deserialize_from(buf, p) ==
    IF ~CanRead(buf, p, 1) THEN ReadErr("IOError", p)
    ELSE LET type_byte == buf[p + 1] IN
         IF type_byte \notin {LeafTag, InnerTag} THEN ReadErr("InvalidNodeType", p + 1)
         ELSE IF ~CanRead(buf, p + 1, 8) THEN ReadErr("IOError", p + 1)
         ELSE LET len == from_le_bytes(Slice(buf, p + 1, 8)) IN
              IF type_byte = LeafTag
              THEN IF ~CanRead(buf, p + 9, len) THEN ReadErr("IOError", p + 9)
                   ELSE ReadOk(Leaf(Slice(buf, p + 9, len)), p + 9 + len)
              ELSE DeserializeNodes(buf, p + 9, len, <<>>)
\* DeserializeNodes with each child put in front of the ones read before it.
DeserializeNodesReversed(buf, p, left, nodes) ==
    IF left = 0 THEN ReadOk(Inner(nodes), p)
    ELSE LET r == _deserialize_from(buf, p) IN
         IF r.tag # "Ok" THEN r
         ELSE DeserializeNodes(buf, r.pos, left - 1, <<r.val>> \o nodes)

\* for _ in 0..len { nodes.push(Node::_deserialize_from(reader)?) }
DeserializeNodes(buf, p, left, nodes) ==
    IF left = 0 THEN ReadOk(Inner(nodes), p)
    ELSE LET r == _deserialize_from(buf, p) IN
         IF r.tag # "Ok" THEN r
         ELSE DeserializeNodes(buf, r.pos, left - 1, Append(nodes, r.val))

\* deserialize_from without the check that the whole input was processed.
deserialize_from_unchecked(buf) ==
    IF ~CanRead(buf, 0, 5) THEN Err("IOError")
    ELSE IF Slice(buf, 0, 5) # Magic THEN Err("InvalidMagicNumber")
    ELSE LET r == _deserialize_from(buf, 5) IN
         IF r.tag # "Ok" THEN Err(r.err) ELSE Ok(r.val)

\* deserialize_from comparing only the first 4 bytes of the magic.
deserialize_from_magic4(buf) ==
    IF ~CanRead(buf, 0, 5) THEN Err("IOError")
    ELSE IF Slice(buf, 0, 4) # SubSeq(Magic, 1, 4) THEN Err("InvalidMagicNumber")
    ELSE LET r == _deserialize_from(buf, 5) IN
         IF r.tag # "Ok" THEN Err(r.err)
         ELSE IF r.pos < Len(buf) THEN Err("AdditionalBytes")
         ELSE Ok(r.val)

deserialize_from(buf) ==
    IF ~CanRead(buf, 0, 5) THEN Err("IOError")
    ELSE IF Slice(buf, 0, 5) # Magic THEN Err("InvalidMagicNumber")
    ELSE LET r == _deserialize_from(buf, 5) IN
         IF r.tag # "Ok" THEN Err(r.err)
         ELSE IF r.pos < Len(buf) THEN Err("AdditionalBytes")
         ELSE Ok(r.val)

deserialize(bytes) == deserialize_from(bytes)

\* ------------------------------------------------------------------ text

\* The digits of {:02x}, by value.
LowerHex == <<"0", "1", "2", "3", "4", "5", "6", "7",
              "8", "9", "a", "b", "c", "d", "e", "f">>
\* The other digits char::to_digit(16) accepts.
UpperHex == <<"0", "1", "2", "3", "4", "5", "6", "7",
              "8", "9", "A", "B", "C", "D", "E", "F">>

\* format!("{:x}", b): no leading zero.
Hex02Unpadded(b) ==
    IF b < 16 THEN <<LowerHex[b + 1]>>
    ELSE <<LowerHex[(b \div 16) + 1], LowerHex[(b % 16) + 1]>>

\* format!("{:02x}", b)
Hex02(b) == <<LowerHex[(b \div 16) + 1], LowerHex[(b % 16) + 1]>>

\* " ".repeat(k)
Spaces(k) == [i \in 1..k |-> " "]

RECURSIVE FmtBytes(_, _), FmtNodes(_, _), fmt(_)
\* The loop of the Leaf arm of Display::fmt, from byte i on.
FmtBytes(bytes, i) ==
    IF i > Len(bytes) THEN <<>>
    ELSE (IF i > 1 THEN <<"_">> ELSE <<>>) \o Hex02(bytes[i]) \o FmtBytes(bytes, i + 1)
\* The loop of the Inner arm of Display::fmt, from child i on.
FmtNodes(nodes, i) ==
    IF i > Len(nodes) THEN <<>>
    ELSE (IF i > 1 THEN <<" ">> ELSE <<>>) \o fmt(nodes[i]) \o FmtNodes(nodes, i + 1)
\* impl Display for Node
fmt(n) ==
    IF is_leaf(n) THEN <<"0", "x">> \o FmtBytes(n.bytes, 1)
    ELSE <<"(">> \o FmtNodes(n.nodes, 1) \o <<")">>

\* x.saturating_sub(1)
saturating_sub1(x) == IF x = 0 THEN 0 ELSE x - 1

RECURSIVE _width(_), SumWidths(_, _)
SumWidths(nodes, i) ==
    IF i > Len(nodes) THEN 0 ELSE _width(nodes[i]) + SumWidths(nodes, i + 1)
_width(n) ==
    IF is_leaf(n)
    THEN 2 + 2 * Len(n.bytes) + saturating_sub1(Len(n.bytes))
    ELSE 2 + SumWidths(n.nodes, 1) + saturating_sub1(Len(n.nodes))

\* LeafBreaks counting the two digits and not the separator.
LeafBreaksLate(pos, max_width) == pos + 2 > max_width

\* Whether the Leaf arm of _pretty_print breaks the line before a byte.
LeafBreaks(pos, max_width) == pos + 3 > max_width
\* InnerFits with the comparison turned around.
InnerFitsFlipped(n, max_width, indent) == indent + _width(n) >= max_width

\* InnerFits with < for <=.
InnerFitsStrict(n, max_width, indent) == indent + _width(n) < max_width

\* Whether the Inner arm of _pretty_print renders the node on one line.
InnerFits(n, max_width, indent) == indent + _width(n) <= max_width
\* The indentation step of the multi-line form.
IndentStep == 4

RECURSIVE PrettyBytes(_, _, _, _, _)
\* The loop of the Leaf arm of _pretty_print, from byte idx (counted from 1)
\* on, with the column counter at pos.
PrettyBytes(bytes, idx, pos, max_width, indent) ==
    IF idx > Len(bytes) THEN <<>>
    ELSE IF LeafBreaks(pos, max_width)
    THEN <<"\n">> \o Spaces(indent + 2) \o Hex02(bytes[idx])
         \o PrettyBytes(bytes, idx + 1, indent + 2 + 2, max_width, indent)
    ELSE IF idx > 1
    THEN <<"_">> \o Hex02(bytes[idx])
         \o PrettyBytes(bytes, idx + 1, pos + 1 + 2, max_width, indent)
    ELSE Hex02(bytes[idx])
         \o PrettyBytes(bytes, idx + 1, pos + 2, max_width, indent)

RECURSIVE _pretty_print(_, _, _), PrettyFlat(_, _, _, _), PrettyLines(_, _, _, _)
\* The loop of the flat branch, from child idx on.
PrettyFlat(nodes, idx, max_width, indent) ==
    IF idx > Len(nodes) THEN <<>>
    ELSE (IF idx > 1 THEN <<" ">> ELSE <<>>)
         \o _pretty_print(nodes[idx], max_width, indent)
         \o PrettyFlat(nodes, idx + 1, max_width, indent)
\* The loop of the multi-line branch, from child idx on.
PrettyLines(nodes, idx, max_width, indent) ==
    IF idx > Len(nodes) THEN <<>>
    ELSE Spaces(indent + IndentStep)
         \o _pretty_print(nodes[idx], max_width, indent + IndentStep)
         \o <<"\n">>
         \o PrettyLines(nodes, idx + 1, max_width, indent)
_pretty_print(n, max_width, indent) ==
    IF is_leaf(n)
    THEN <<"0", "x">> \o PrettyBytes(n.bytes, 1, indent + 2, max_width, indent)
    ELSE IF InnerFits(n, max_width, indent)
    THEN <<"(">> \o PrettyFlat(n.nodes, 1, max_width, indent) \o <<")">>
    ELSE <<"(", "\n">> \o PrettyLines(n.nodes, 1, max_width, indent)
         \o Spaces(indent) \o <<")">>

pretty_print(n, max_width) == _pretty_print(n, max_width, 0)

\* -------------------------------------------------------------- tokenizer

LParen == [t |-> "LParen", bytes |-> <<>>]
RParen == [t |-> "RParen", bytes |-> <<>>]
Bytes(b) == [t |-> "Bytes", bytes |-> b]

TokensOk(ts) == [tag |-> "Ok", tokens |-> ts, err |-> ""]
TokensErr(e) == [tag |-> "Err", tokens |-> <<>>, err |-> e]
NoTokens == [tag |-> "None", tokens |-> <<>>, err |-> ""]

\* Option::None of first_char_val and of char::to_digit.
None == -1

\* c.to_digit(16)
to_digit(c) ==
    IF \E i \in 1..16 : LowerHex[i] = c
    THEN (CHOOSE i \in 1..16 : LowerHex[i] = c) - 1
    ELSE IF \E i \in 1..16 : UpperHex[i] = c
    THEN (CHOOSE i \in 1..16 : UpperHex[i] = c) - 1
    ELSE None

\* char::is_ascii_whitespace: space, tab, line feed, form feed, carriage return
is_ascii_whitespace(c) == c \in {" ", "\t", "\n", "\f", "\r"}

\* PushedByte with the nibbles swapped.
PushedByteSwapped(hi, lo) == (lo * 16 + hi) % 256

\* The byte pushed for a high digit hi and a low digit lo (u8 arithmetic,
\* which two hex digits cannot overflow).
PushedByte(hi, lo) == (hi * 16 + lo) % 256

RECURSIVE ScanBytes(_, _, _, _)
\* The inner loop of tokenize (the peek loop after "0x"), at character i with
\* the bytes ret so far and the pending high digit first_char_val.
ScanBytes(s, i, ret, first_char_val) ==
    IF i > Len(s) THEN [ret |-> ret, first |-> first_char_val, pos |-> i]
    ELSE LET d == to_digit(s[i]) IN
         IF d # None
         THEN IF first_char_val = None
              THEN ScanBytes(s, i + 1, ret, d)
              ELSE ScanBytes(s, i + 1, Append(ret, PushedByte(first_char_val, d)), None)
         ELSE IF s[i] = "_" THEN ScanBytes(s, i + 1, ret, first_char_val)
         ELSE [ret |-> ret, first |-> first_char_val, pos |-> i]

\* The first character from i on that is not ASCII whitespace (Len(s) + 1
\* when there is none): where the outer loop of tokenize stands after it has
\* ignored the whitespace from i on, one character an iteration.
SkipWhitespace(s, i) ==
    CHOOSE j \in i..(Len(s) + 1) :
        /\ \A k \in i..(j - 1) : is_ascii_whitespace(s[k])
        /\ j = Len(s) + 1 \/ ~is_ascii_whitespace(s[j])

RECURSIVE TokenizeFrom(_, _, _)
\* The outer loop of tokenize, at character i with the tokens so far.
TokenizeFrom(s, i, tokens) ==
    CASE i > Len(s) -> TokensOk(tokens)
      [] i <= Len(s) /\ s[i] = "(" -> TokenizeFrom(s, i + 1, Append(tokens, LParen))
      [] i <= Len(s) /\ s[i] = ")" -> TokenizeFrom(s, i + 1, Append(tokens, RParen))
      [] i <= Len(s) /\ s[i] = "0" ->
            IF i + 1 > Len(s) \/ s[i + 1] # "x" THEN TokensErr("Expected 'x'!")
            ELSE LET r == ScanBytes(s, i + 2, <<>>, None) IN
                 IF r.first # None THEN TokensErr("byte sequence incomplete")
                 ELSE TokenizeFrom(s, r.pos, Append(tokens, Bytes(r.ret)))
      [] i <= Len(s) /\ is_ascii_whitespace(s[i]) ->
            TokenizeFrom(s, SkipWhitespace(s, i), tokens)
      [] OTHER -> TokensErr("Unexpected character!")

tokenize(s) == TokenizeFrom(s, 1, <<>>)

\* ----------------------------------------------------------------- parser

RECURSIVE parse_node(_, _), parse_inner_node(_, _, _)
\* parse_node with the token iterator at token i.
parse_node(data, i) ==
    IF i > Len(data) THEN ReadErr("Parse Error", i)
    ELSE IF data[i].t = "Bytes" THEN ReadOk(Leaf(data[i].bytes), i + 1)
    ELSE IF data[i].t = "LParen" THEN parse_inner_node(data, i + 1, <<>>)
    ELSE ReadErr("Parse Error", i + 1)
\* The loop of parse_inner_node with the iterator at token i.
parse_inner_node(data, i, children) ==
    IF i <= Len(data) /\ data[i].t = "RParen" THEN ReadOk(Inner(children), i + 1)
    ELSE LET r == parse_node(data, i) IN
         IF r.tag # "Ok" THEN r
         ELSE parse_inner_node(data, r.pos, Append(children, r.val))

\* parse without the check for tokens after the node.
parse_ignoring_rest(tokens) ==
    LET r == parse_node(tokens, 1) IN
    IF r.tag # "Ok" THEN Err(r.err) ELSE Ok(r.val)

\* parser::parse
parse(tokens) ==
    LET r == parse_node(tokens, 1) IN
    IF r.tag # "Ok" THEN Err(r.err)
    ELSE IF r.pos <= Len(tokens) THEN Err("Unexpected characters after node.")
    ELSE Ok(r.val)

\* ParseResult::parse
ParseResult_parse(s) ==
    LET t == tokenize(s) IN
    IF t.tag # "Ok" THEN LexingError(t.err)
    ELSE LET r == parse(t.tokens) IN
         IF r.tag = "Ok" THEN Ok(r.val) ELSE ParsingError(r.err)

\* Node::parse
Node_parse(s) == ParseResult_parse(s)

\* ------------------------------------------------------------- conversion

\* impl TryFrom<&Node> for &[u8]
try_from(value) ==
    IF is_inner(value) THEN ErrBytes("ExpectedLeaf") ELSE Ok(value.bytes)

\* <[u8; N]>::try_from(x).map_err(|_| TryIntoError::LengthMismatch)
SliceToArray(x, N) ==
    IF Len(x) = N THEN Ok(x) ELSE ErrBytes("LengthMismatch")

\* try_into_array checking the length before the variant.
try_into_array_length_first(n, N) ==
    IF Len(n.bytes) # N THEN ErrBytes("LengthMismatch") ELSE try_from(n)

\* Node::try_into_array::<[u8; N]>
try_into_array(n, N) ==
    LET r == try_from(n) IN
    IF r.tag # "Ok" THEN r ELSE SliceToArray(r.val, N)

\* ---------------------------------------------------------- the state machine

VARIABLES
    node,        \* the Node the caller holds (NoNode when it holds none)
    buf,         \* the byte buffer: an encoding, or bytes received
    text,        \* the string: a rendering, or text received
    max_width,   \* the max_width of the pretty_print that wrote text
    prev_text,   \* the rendering of the pretty_print before the last one
    prev_width,  \* its max_width (None before a second pretty_print)
    array_len,   \* the N of the last try_into_array
    tokens,      \* what tokenize returned inside the last parse
    result,      \* what the last deserialize, parse or try_into_array returned
    src,         \* the operation that produced buf or text ("input": received)
    pc           \* the last kind of operation

vars == <<node, buf, text, max_width, prev_text, prev_width, array_len,
          tokens, result, src, pc>>

\* The characters of a hex literal handed to parse directly.
RunChars == {"0", "1", "a", "F", "_"}
\* What follows the literal.
Tails == {<<>>, <<" ">>, <<")">>}
\* The byte values of the buffers handed to deserialize directly.
RawBytes == {0, 66, 65, 85, 77, 49}

SeqsUpTo(S, k) == UNION {[1..m -> S] : m \in 0..k}

InputBufs == SeqsUpTo(RawBytes, MaxBufLen)
InputTexts == {(<<"0", "x">> \o r) \o t : r \in SeqsUpTo(RunChars, MaxRun), t \in Tails}

Blank ==
    /\ max_width = 0
    /\ prev_text = <<>>
    /\ prev_width = None
    /\ array_len = 0
    /\ tokens = NoTokens
    /\ result = NoResult

\* The caller has built a Node with new_leaf and new_inner.
Init ==
    /\ node \in Nodes
    /\ buf = <<>>
    /\ text = <<>>
    /\ src = "none"
    /\ pc = "new"
    /\ Blank

\* The caller has received bytes to decode.
InitDecode ==
    /\ node = NoNode
    /\ buf \in InputBufs
    /\ text = <<>>
    /\ src = "input"
    /\ pc = "encoded"
    /\ Blank

\* The caller has received text to parse.
InitLex ==
    /\ node = NoNode
    /\ buf = <<>>
    /\ text \in InputTexts
    /\ src = "input"
    /\ pc = "printed"
    /\ Blank

Serialize ==
    /\ pc = "new"
    /\ buf' = serialize(node)
    /\ src' = "serialize"
    /\ pc' = "encoded"
    /\ UNCHANGED <<node, text, max_width, prev_text, prev_width, array_len, tokens, result>>

SerializeInto ==
    /\ pc = "new"
    /\ buf' = serialize_into(node, <<>>)
    /\ src' = "serialize_into"
    /\ pc' = "encoded"
    /\ UNCHANGED <<node, text, max_width, prev_text, prev_width, array_len, tokens, result>>

\* The caller appends one byte to an encoding.
AppendByte(b) ==
    /\ pc = "encoded"
    /\ src \in {"serialize", "serialize_into"}
    /\ buf' = Append(buf, b)
    /\ src' = "append"
    /\ UNCHANGED <<node, text, max_width, prev_text, prev_width, array_len, tokens, result, pc>>

Deserialize ==
    /\ pc = "encoded"
    /\ result' = deserialize(buf)
    /\ pc' = "decoded"
    /\ UNCHANGED <<node, buf, text, max_width, prev_text, prev_width, array_len, tokens, src>>

Display ==
    /\ pc = "new"
    /\ text' = fmt(node)
    /\ src' = "fmt"
    /\ pc' = "printed"
    /\ UNCHANGED <<node, buf, max_width, prev_text, prev_width, array_len, tokens, result>>

PrettyPrint(w) ==
    /\ pc = "new"
    /\ text' = pretty_print(node, w)
    /\ max_width' = w
    /\ src' = "pretty_print"
    /\ pc' = "printed"
    /\ UNCHANGED <<node, buf, prev_text, prev_width, array_len, tokens, result>>

\* The caller prints the same Node again, at a width no smaller.
PrettyPrintAgain(w) ==
    /\ pc = "printed"
    /\ src = "pretty_print"
    /\ prev_width = None
    /\ w >= max_width
    /\ prev_text' = text
    /\ prev_width' = max_width
    /\ text' = pretty_print(node, w)
    /\ max_width' = w
    /\ UNCHANGED <<node, buf, array_len, tokens, result, src, pc>>

Parse ==
    /\ pc = "printed"
    /\ prev_width = None
    /\ tokens' = tokenize(text)
    /\ result' = Node_parse(text)
    /\ pc' = "parsed"
    /\ UNCHANGED <<node, buf, text, max_width, prev_text, prev_width, array_len, src>>

TryIntoArray(N) ==
    /\ pc = "new"
    /\ result' = try_into_array(node, N)
    /\ array_len' = N
    /\ pc' = "converted"
    /\ UNCHANGED <<node, buf, text, max_width, prev_text, prev_width, tokens, src>>

Next ==
    \/ Serialize
    \/ SerializeInto
    \/ \E b \in ExtraBytes : AppendByte(b)
    \/ Deserialize
    \/ Display
    \/ \E w \in 0..MaxWidth : PrettyPrint(w)
    \/ \E w \in 0..MaxWidth : PrettyPrintAgain(w)
    \/ Parse
    \/ \E N \in 0..MaxArrayLen : TryIntoArray(N)

NextDecode == Deserialize

NextLex == Parse

Spec == Init /\ [][Next]_vars

SpecDecode == InitDecode /\ [][NextDecode]_vars

SpecLex == InitLex /\ [][NextLex]_vars

\* Token sequences handed to parser::parse directly have at most MaxTokens tokens.
MaxTokens == 6
\* The tokens they are made of.
TokenKinds == {LParen, RParen, Bytes(<<>>), Bytes(<<1>>)}
InputTokens == SeqsUpTo(TokenKinds, MaxTokens)

\* The caller holds a token sequence to parse.
InitParse ==
    /\ node = NoNode
    /\ buf = <<>>
    /\ text = <<>>
    /\ src = "input"
    /\ pc = "lexed"
    /\ max_width = 0
    /\ prev_text = <<>>
    /\ prev_width = None
    /\ array_len = 0
    /\ tokens \in {TokensOk(ts) : ts \in InputTokens}
    /\ result = NoResult

ParseTokens ==
    /\ pc = "lexed"
    /\ result' = parse(tokens.tokens)
    /\ pc' = "parsed_tokens"
    /\ UNCHANGED <<node, buf, text, max_width, prev_text, prev_width, array_len, tokens, src>>

NextParse == ParseTokens

SpecParse == InitParse /\ [][NextParse]_vars

\* ------------------------------------------------- measures the claims use

Max(a, b) == IF a >= b THEN a ELSE b

\* The positions after which a line of t starts: 0 and every line feed.
LineStarts(t) == {0} \cup {i \in 1..Len(t) : t[i] = "\n"}
\* The position of the line feed (or the end of t) that ends the line
\* starting after position i.
LineEnd(t, i) ==
    CHOOSE j \in (i + 1)..(Len(t) + 1) :
        /\ j = Len(t) + 1 \/ t[j] = "\n"
        /\ \A k \in (i + 1)..(j - 1) : t[k] # "\n"
LineLen(t, i) == LineEnd(t, i) - i - 1
LineCount(t) == Cardinality(LineStarts(t))
AllLinesWithin(t, w) == \A i \in LineStarts(t) : LineLen(t, i) <= w

RECURSIVE Depth(_)
\* The nesting depth of a Node: 0 for a leaf, 1 more than its deepest child
\* for an inner node.
Depth(n) ==
    IF is_leaf(n) THEN 0
    ELSE 1 + (IF n.nodes = <<>> THEN 0
              ELSE CHOOSE d \in {Depth(n.nodes[i]) : i \in 1..Len(n.nodes)} :
                       \A i \in 1..Len(n.nodes) : Depth(n.nodes[i]) <= d)

\* The line starting after position i is k spaces and then a character of S.
LineOpens(t, i, k, S) ==
    /\ LineLen(t, i) > k
    /\ \A j \in 1..k : t[i + j] = " "
    /\ t[i + k + 1] \in S

\* The multi-line form of an inner node with nchildren children at
\* indentation 0: "(" alone on the first line, ")" alone on the last, every
\* line between indented by at least 4 spaces, and one line per child that
\* starts a node ("0x..." or "(") at column 4.
MultiLineForm(t, nchildren) ==
    /\ Len(t) >= 3
    /\ t[1] = "(" /\ t[2] = "\n"
    /\ t[Len(t)] = ")" /\ t[Len(t) - 1] = "\n"
    /\ \A i \in LineStarts(t) \ {0, Len(t) - 1} :
           LineLen(t, i) >= 4 /\ \A j \in 1..4 : t[i + j] = " "
    /\ Cardinality({i \in LineStarts(t) : LineOpens(t, i, 4, {"0", "("})}) = nchildren

StartsWithMagic(b) == Len(b) >= 5 /\ \A i \in 1..5 : b[i] = Magic[i]

\* A Node that nests: an inner node holding an empty leaf, a leaf with bytes
\* and an inner node.
Nested(n) ==
    /\ is_inner(n)
    /\ \E i \in 1..Len(n.nodes) : n.nodes[i] = Leaf(<<>>)
    /\ \E i \in 1..Len(n.nodes) : is_leaf(n.nodes[i]) /\ n.nodes[i].bytes # <<>>
    /\ \E i \in 1..Len(n.nodes) : is_inner(n.nodes[i])

IsHexDigit(c) == \E i \in 1..16 : c = LowerHex[i] \/ c = UpperHex[i]
HexValue(c) == CHOOSE v \in 0..15 : c = LowerHex[v + 1] \/ c = UpperHex[v + 1]
\* The maximal run of hex digits and underscores after the "0x" that starts t.
RunEnd(t) ==
    CHOOSE j \in 2..Len(t) :
        /\ \A k \in 3..j : IsHexDigit(t[k]) \/ t[k] = "_"
        /\ j = Len(t) \/ ~(IsHexDigit(t[j + 1]) \/ t[j + 1] = "_")
Run(t) == SubSeq(t, 3, RunEnd(t))
\* The digits of a run, underscores removed.
RunDigits(r) == SelectSeq(r, IsHexDigit)
\* The digits paired left to right, the first of each pair the high nibble.
Paired(d) == [i \in 1..(Len(d) \div 2) |-> 16 * HexValue(d[2 * i - 1]) + HexValue(d[2 * i])]

\* ------------------------------------------------------------------ claims

\* C1: decoding what serialize, or serialize_into on an empty byte vector,
\* wrote for a Node gives Ok of a Node equal to it.
BinaryRoundTrip ==
    (pc = "decoded" /\ src \in {"serialize", "serialize_into"}) => result = Ok(node)

BinaryRoundTripWitness ==
    /\ pc = "decoded"
    /\ src = "serialize_into"
    /\ Nested(node)
    /\ result = Ok(node)

\* C2: parsing the Display rendering of a Node gives ParseResult::Ok of a
\* Node equal to it.
TextRoundTrip ==
    (pc = "parsed" /\ src = "fmt") => result = Ok(node)

TextRoundTripWitness ==
    /\ pc = "parsed"
    /\ src = "fmt"
    /\ Nested(node)
    /\ result = Ok(node)

\* C3: parsing pretty_print(w) of a Node gives ParseResult::Ok of a Node
\* equal to it, for every Node and every width.
PrettyPrintParses ==
    (pc = "parsed" /\ src = "pretty_print") => result = Ok(node)

\* C4: decoding an encoding with one more byte appended fails with
\* AdditionalBytes and gives no Node.
ExactConsumption ==
    (pc = "decoded" /\ src = "append") => result = Err("AdditionalBytes")

ExactConsumptionWitness ==
    /\ pc = "decoded"
    /\ src = "append"
    /\ Nested(node)
    /\ buf[Len(buf)] = 0
    /\ result = Err("AdditionalBytes")

\* C5, as claimed: decoding a buffer of any length that does not start with
\* the magic fails with InvalidMagicNumber.
MagicCheckAnyLength ==
    (pc = "decoded" /\ ~StartsWithMagic(buf)) => result = Err("InvalidMagicNumber")

\* C5, amended: decoding a buffer that does not start with the magic fails
\* with InvalidMagicNumber when it holds at least 5 bytes, and with the
\* wrapped I/O error of read_exact when it holds fewer.
MagicCheck ==
    (pc = "decoded" /\ ~StartsWithMagic(buf)) =>
        result = (IF Len(buf) >= 5 THEN Err("InvalidMagicNumber") ELSE Err("IOError"))

MagicCheckWitness ==
    /\ pc = "decoded"
    /\ Len(buf) >= 5
    /\ SubSeq(buf, 1, 4) = SubSeq(Magic, 1, 4)
    /\ buf[5] # Magic[5]
    /\ result = Err("InvalidMagicNumber")

\* C6: printing the same Node at a width no smaller gives no more lines.
WidthMonotone ==
    (prev_width # None /\ prev_width <= max_width) =>
        LineCount(text) <= LineCount(prev_text)

WidthMonotoneWitness ==
    /\ prev_width # None
    /\ prev_width < max_width
    /\ is_inner(node)
    /\ 1 < LineCount(text)
    /\ LineCount(text) < LineCount(prev_text)

\* C7, as claimed: every line of pretty_print(w) has at most w characters.
WidthBound ==
    (pc = "printed" /\ src = "pretty_print") => AllLinesWithin(text, max_width)

\* C7, amended: every line of pretty_print(w) of a Node of nesting depth d
\* has at most max(w, 4 * d + 4) characters.
WidthBoundFromDepth ==
    (pc = "printed" /\ src = "pretty_print") =>
        AllLinesWithin(text, Max(max_width, IndentStep * Depth(node) + 4))

WidthBoundFromDepthWitness ==
    /\ pc = "printed"
    /\ src = "pretty_print"
    /\ is_inner(node)
    /\ max_width >= IndentStep * Depth(node) + 4
    /\ LineCount(text) > 3
    /\ \E i \in LineStarts(text) : LineLen(text, i) = max_width

\* C8: pretty_print(w) of an inner node is its Display rendering exactly when
\* that rendering has at most w characters, which is when _width is at most
\* w; otherwise it is the multi-line form.
FlatIffFits ==
    (pc = "printed" /\ src = "pretty_print" /\ is_inner(node)) =>
        /\ _width(node) = Len(fmt(node))
        /\ (text = fmt(node)) <=> (Len(fmt(node)) <= max_width)
        /\ Len(fmt(node)) > max_width => MultiLineForm(text, Len(node.nodes))

FlatIffFitsWitness ==
    /\ pc = "printed"
    /\ src = "pretty_print"
    /\ Nested(node)
    /\ Len(fmt(node)) = max_width
    /\ text = fmt(node)

\* C9: try_into_array for N bytes gives ExpectedLeaf for an inner node
\* whatever N is, LengthMismatch for a leaf of another length, and Ok of the
\* leaf's bytes for a leaf of N bytes; it leaves the node as it was.
TryIntoArrayOutcomes ==
    /\ [](pc = "converted" =>
            result = (IF is_inner(node) THEN ErrBytes("ExpectedLeaf")
                      ELSE IF Len(node.bytes) # array_len THEN ErrBytes("LengthMismatch")
                      ELSE Ok(node.bytes)))
    /\ [][pc' = "converted" => node' = node]_vars

TryIntoArrayOutcomesWitness ==
    /\ pc = "converted"
    /\ is_inner(node)
    /\ Len(node.nodes) # array_len
    /\ result = ErrBytes("ExpectedLeaf")

\* C10: for a literal 0x and its run of hex digits and underscores, an odd
\* number of digits makes parse return LexingError("byte sequence
\* incomplete") with no token; an even number gives one Bytes token, whose
\* bytes are the digits of the run, underscores removed, paired left to right.
HexLiteralScan ==
    (pc = "parsed" /\ src = "input") =>
        LET d == RunDigits(Run(text)) IN
        IF Len(d) % 2 = 1
        THEN /\ result = LexingError("byte sequence incomplete")
             /\ tokens.tokens = <<>>
        ELSE /\ tokens.tag = "Ok"
             /\ Head(tokens.tokens) = Bytes(Paired(d))
             /\ \A i \in 2..Len(tokens.tokens) : tokens.tokens[i].t # "Bytes"

HexLiteralScanWitness ==
    /\ pc = "parsed"
    /\ src = "input"
    /\ Run(text) = <<"1", "_", "F", "_">>
    /\ tokens = TokensOk(<<Bytes(<<31>>)>>)
    /\ result = Ok(Leaf(<<31>>))

\* The parentheses open after the first k tokens: LParens less RParens.
ParenDepth(ts, k) ==
    Cardinality({i \in 1..k : ts[i].t = "LParen"})
    - Cardinality({i \in 1..k : ts[i].t = "RParen"})
\* The index of the token that completes the first node of ts: 1 for a Bytes
\* token, the RParen that closes a leading LParen; 0 when there is none.
FirstNodeEnd(ts) ==
    IF ts = <<>> \/ ts[1].t = "RParen" THEN 0
    ELSE IF ts[1].t = "Bytes" THEN 1
    ELSE IF \E k \in 1..Len(ts) : ParenDepth(ts, k) = 0
    THEN CHOOSE k \in 1..Len(ts) :
             ParenDepth(ts, k) = 0 /\ \A j \in 1..(k - 1) : ParenDepth(ts, j) > 0
    ELSE 0
\* The tokens run out before the node is complete: no token at all, or a
\* leading LParen that no token closes.
RunsOut(ts) ==
    \/ ts = <<>>
    \/ ts[1].t = "LParen" /\ \A k \in 1..Len(ts) : ParenDepth(ts, k) > 0

\* C11: parse returns Ok exactly for a token sequence that is one complete
\* node, and the Node is the one those tokens spell; when the tokens run out
\* before the node is complete it returns "Parse Error" with every token
\* consumed; when tokens follow a complete node it returns "Unexpected
\* characters after node."; an error carries no Node.
ParserOutcomes ==
    pc = "parsed_tokens" =>
        LET ts == tokens.tokens
            e == FirstNodeEnd(ts)
        IN /\ (result.tag = "Ok") <=> (e > 0 /\ e = Len(ts))
           /\ result.tag = "Ok" => tokenize(fmt(result.val)) = TokensOk(ts)
           /\ RunsOut(ts) =>
                  /\ result = Err("Parse Error")
                  /\ parse_node(ts, 1).pos = Len(ts) + 1
           /\ (e > 0 /\ e < Len(ts)) =>
                  result = Err("Unexpected characters after node.")
           /\ result.tag # "Ok" => result.val = NoNode

ParserOutcomesWitness ==
    /\ pc = "parsed_tokens"
    /\ Len(tokens.tokens) >= 4
    /\ tokens.tokens[1] = LParen
    /\ \E k \in 2..Len(tokens.tokens) : tokens.tokens[k] = LParen /\ ParenDepth(tokens.tokens, k) = 2
    /\ \E k \in 2..Len(tokens.tokens) : tokens.tokens[k] = RParen
    /\ RunsOut(tokens.tokens)
    /\ result = Err("Parse Error")

====
